---- MODULE Spec2Model ----
(***************************************************************************)
(* The A/B testing service of sooki-backend                                *)
(*   src/services/abTestingService.js  (ABTestingService, AnalyticsService *)
(*                                      and their schemas)                 *)
(*   src/unnamed/part_002              (the /api/abtest routes)            *)
(* as a state machine.  The durable collections (ABTest,                   *)
(* UserTestAssignment, AnalyticsEvent), the in-memory cache of active      *)
(* tests, the queue of pending analytics events and every request in       *)
(* flight are the state; every await of a handler is one step.             *)
(*                                                                         *)
(* Conventions                                                             *)
(*  - an identifier is the tuple of its UTF-16 code units; <<>> stands for *)
(*    undefined / null / a missing field (MongoDB matches and indexes a    *)
(*    missing field as null, the driver serialises undefined as null);     *)
(*  - an optional document is a set with at most one element, an optional  *)
(*    value is a sequence of length at most one;                           *)
(*  - traffic percentages are in thousandths of a percent, so the 0.01     *)
(*    tolerance of createTest is 10 and 100% is 100000.                    *)
(***************************************************************************)
EXTENDS Integers, Sequences, FiniteSets, TLC

VARIABLES
    tests,         \* the ABTest collection: a set of documents
    nextId,        \* the next _id the collection hands out
    cache,         \* ABTestingService.cache: the lean copies of the active tests
    assignments,   \* the UserTestAssignment collection: a set of documents
    eventStore,    \* the AnalyticsEvent collection: the documents in insertion order
    eventQueue,    \* AnalyticsService.eventQueue: the pending events
    flights,       \* the insertMany calls in flight, each with the batch it was given
    submitted,     \* history: every event trackEvent has taken, in order
    failed,        \* history: whether an insertMany has been rejected
    pc,            \* where each request (or the refresh timer) stands
    loc,           \* the local variables of each request in flight
    resp,          \* the response or return value the last step produced, if any
    firstVariant,  \* history: the first variant returned per <<unit, test id>>
    requests,      \* how many requests (and timer ticks) have begun
    receipts,      \* the Receipts collection
    orders         \* the paymentStatus of each Order document

vars == <<tests, nextId, cache, assignments, eventStore, eventQueue, flights, submitted,
          failed, pc, loc, resp, firstVariant, requests, receipts, orders>>

\* the state of the analytics service
analytics == <<eventStore, eventQueue, flights, submitted, failed>>

\* the state of the receipt verification
verification == <<receipts, orders>>

(***************************************************************************)
(* Bounds of the model                                                     *)
(***************************************************************************)
\* how many ABTest documents are ever created (ids 1..MaxTests)
MaxTests == 2
\* how many requests and timer ticks a behaviour begins
MaxRequests == 5
\* how many events trackEvent takes in a behaviour
MaxEvents == 3
\* how many documents the AnalyticsEvent collection comes to hold (a batch that
\* fails after some of its documents were written is inserted again)
MaxStored == 4
\* AnalyticsService.batchSize, 100 in the constructor, scaled down
BatchSize == 2

(***************************************************************************)
(* Program constants                                                       *)
(***************************************************************************)
Statuses == {"draft", "active", "paused", "completed"}

\* 100% and the 0.01 tolerance of createTest, in thousandths of a percent
FullTraffic == 100 * 1000
Tolerance == 1000 \div 100
\* the schema default of variants[].trafficPercentage (50)
DefaultTraffic == 50 * 1000

Pct(n) == n * 1000

\* the default display configuration of getDisplayAddOnsConfig
DefaultConfig ==
    [algorithm |-> "hybrid", maxAddOns |-> 4, prioritizeRevenue |-> TRUE,
     showRelatedProducts |-> TRUE, variant |-> "control"]

(***************************************************************************)
(* Identifiers the requests of the model carry                             *)
(***************************************************************************)
None == <<>>

\* "64b7f0c2a1d3e4f5a6b7c8d9", a user's ObjectId
U1 == <<54, 52, 98, 55, 102, 48, 99, 50, 97, 49, 100, 51,
        101, 52, 102, 53, 97, 54, 98, 55, 99, 56, 100, 57>>
\* "sess-1" and "sess-2", two anonymous sessions
S1 == <<115, 101, 115, 115, 45, 49>>
S2 == <<115, 101, 115, 115, 45, 50>>
\* "1234...", 24 digits: a product's ObjectId
P1 == [i \in 1..24 |-> 48 + (i % 10)]
\* the text `${undefined}` that assignVariant hashes when neither id is given
UndefinedText == <<117, 110, 100, 101, 102, 105, 110, 101, 100>>

UserIds == {None, U1}
SessionIds == {None, S1, S2}

TestNames == {"displayaddons_optimization"}

(***************************************************************************)
(* Variant lists                                                           *)
(***************************************************************************)
Variant(n, c, p) == [name |-> n, config |-> c, trafficPercentage |-> p]

V6040 == << Variant("A", "cfgA", Pct(60)), Variant("B", "cfgB", Pct(40)) >>
V4060 == << Variant("A", "cfgA", Pct(40)), Variant("B", "cfgB", Pct(60)) >>
\* sums of 99 and 101
V6039 == << Variant("A", "cfgA", Pct(60)), Variant("B", "cfgB", Pct(39)) >>
V6041 == << Variant("A", "cfgA", Pct(60)), Variant("B", "cfgB", Pct(41)) >>
\* 50 + 49.995: off by 0.005, inside the tolerance
VTol == << Variant("A", "cfgA", Pct(50)), Variant("B", "cfgB", Pct(50) - 5) >>
\* the second variant gives no trafficPercentage
VMiss == << Variant("A", "cfgA", Pct(60)), [name |-> "B", config |-> "cfgB"] >>

CreateVariants == {V6040, V6039, V6041, VTol, VMiss}

(***************************************************************************)
(* Target audiences and request metadata                                   *)
(***************************************************************************)
\* what a document holds when the request gave no targetAudience
AudAll == [userSegments |-> {}, categories |-> {}, minOrderValue |-> 0, maxOrderValue |-> 0]
AudNew == [userSegments |-> {"new_users"}, categories |-> {}, minOrderValue |-> 0, maxOrderValue |-> 0]
Audiences == {AudAll, AudNew}

\* "" is an absent string, 0 an absent number
MetaNone == [segment |-> "", category |-> "", orderValue |-> 0]
MetaNew == [segment |-> "new_users", category |-> "", orderValue |-> 0]
Metadatas == {MetaNone, MetaNew}

(***************************************************************************)
(* Pure functions of ABTestingService                                      *)
(***************************************************************************)
HasTraffic(v) == "trafficPercentage" \in DOMAIN v

RECURSIVE SumTraffic(_, _)
SumTraffic(variants, i) ==
    IF i > Len(variants) THEN 0
    ELSE variants[i].trafficPercentage + SumTraffic(variants, i + 1)

\* 0 + undefined is NaN, and NaN stays NaN
TotalIsNaN(variants) == \E i \in 1..Len(variants) : ~HasTraffic(variants[i])

Abs(x) == IF x < 0 THEN -x ELSE x

\* a bug createTest could have: the difference taken without Math.abs
TrafficCheckOneSided(variants) ==
    /\ ~TotalIsNaN(variants)
    /\ SumTraffic(variants, 1) - FullTraffic > Tolerance

\* createTest: Math.abs(totalTraffic - 100) > 0.01; every comparison with NaN is false
TrafficCheckFails(variants) ==
    /\ ~TotalIsNaN(variants)
    /\ Abs(SumTraffic(variants, 1) - FullTraffic) > Tolerance

\* new ABTest(testConfig): the schema default fills a missing trafficPercentage
WithDefaults(variants) ==
    [i \in 1..Len(variants) |->
        IF HasTraffic(variants[i]) THEN variants[i]
        ELSE Variant(variants[i].name, variants[i].config, DefaultTraffic)]

\* matchesTargetAudience
MatchesTargetAudience(targetAudience, userMetadata) ==
    LET userSegment == IF userMetadata.segment = "" THEN "unknown" ELSE userMetadata.segment
        userCategory == userMetadata.category
        orderValue == userMetadata.orderValue
    IN  /\ (targetAudience.userSegments # {} => userSegment \in targetAudience.userSegments)
        /\ (targetAudience.categories # {} =>
                (userCategory # "" => userCategory \in targetAudience.categories))
        /\ (targetAudience.minOrderValue # 0 => orderValue >= targetAudience.minOrderValue)
        /\ (targetAudience.maxOrderValue # 0 => orderValue <= targetAudience.maxOrderValue)

\* `${userId || sessionId}`
HashInput(userId, sessionId) ==
    IF userId # None THEN userId
    ELSE IF sessionId # None THEN sessionId
    ELSE UndefinedText

\* hash = ((hash << 5) - hash) + char; hash = hash & hash, i.e. 31*hash + char
\* wrapped to 32 bits.  The hash is kept as <<high, low>> 16-bit halves of its
\* unsigned 32-bit pattern.
RECURSIVE Hash32(_, _, _)
Hash32(text, i, h) ==
    IF i > Len(text) THEN h
    ELSE LET low == 31 * h[2] + text[i]
             high == 31 * h[1] + (low \div 65536)
         IN  Hash32(text, i + 1, << high % 65536, low % 65536 >>)

\* Math.abs(hash) % 100 without the Math.abs: the sign of % follows the dividend
NormalizedHashSigned(text) ==
    LET h == Hash32(text, 1, <<0, 0>>)
    IN  IF h[1] < 32768
        THEN (h[1] * 65536 + h[2]) % 100
        ELSE 0 - (((((65535 - h[1]) * 65536) % 100) + (65536 - h[2])) % 100)

\* Math.abs(hash) % 100, the hash read as a signed 32-bit integer
NormalizedHash(text) ==
    LET h == Hash32(text, 1, <<0, 0>>)
    IN  IF h[1] < 32768
        THEN (h[1] * 65536 + h[2]) % 100
        ELSE ((((65535 - h[1]) * 65536) % 100) + (65536 - h[2])) % 100

RECURSIVE PickVariantInclusive(_, _, _, _)
\* the walk with normalizedHash <= cumulativePercentage
PickVariantInclusive(variants, i, cumulativePercentage, normalizedHash) ==
    IF i > Len(variants) THEN variants[1]
    ELSE LET c == cumulativePercentage + variants[i].trafficPercentage
         IN  IF Pct(normalizedHash) <= c THEN variants[i]
             ELSE PickVariantInclusive(variants, i + 1, c, normalizedHash)

RECURSIVE PickVariant(_, _, _, _)
PickVariant(variants, i, cumulativePercentage, normalizedHash) ==
    IF i > Len(variants) THEN variants[1]
    ELSE LET c == cumulativePercentage + variants[i].trafficPercentage
         IN  IF Pct(normalizedHash) < c THEN variants[i]
             ELSE PickVariant(variants, i + 1, c, normalizedHash)

\* assignVariant
AssignVariant(variants, userId, sessionId) ==
    PickVariant(variants, 1, 0, NormalizedHash(HashInput(userId, sessionId)))


(***************************************************************************)
(* Results analysis (getTestResults and its helpers)                       *)
(***************************************************************************)
\* the largest r in 0..1000 with r*r <= x, for x in 0..1000000
ISqrt(x) == CHOOSE r \in 0..1000 : r * r <= x /\ (r + 1) * (r + 1) > x

\* calculateConfidence: 0 (falsy, here <<>>) for an empty sample, else the interval
\* rate -+ z * sqrt(rate * (1 - rate) / n), in units of 0.00001
CalculateConfidence(sampleSize, conversions, z100) ==
    IF sampleSize = 0 THEN <<>>
    ELSE LET p == (conversions * 100000) \div sampleSize
             root == ISqrt((Abs(conversions * (sampleSize - conversions)) * 1000000)
                            \div (sampleSize * sampleSize * sampleSize))
             margin == z100 * root
             lo == p - margin
             hi == p + margin
         IN  << [rate |-> p,
                 lower |-> IF lo < 0 THEN 0 ELSE lo,
                 upper |-> IF hi > 100000 THEN 100000 ELSE hi] >>

\* a.conversionRate > b.conversionRate, the rate being conversions / sampleSize
\* (0 for an empty sample)
RateGreater(a, b) ==
    IF a.sampleSize = 0 THEN FALSE
    ELSE IF b.sampleSize = 0 THEN a.conversions > 0
    ELSE a.conversions * b.sampleSize > b.conversions * a.sampleSize

\* determineWinner: reduce keeping the first of the highest conversion rates
RECURSIVE WinnerFrom(_, _, _)
WinnerFrom(variantResults, i, winner) ==
    IF i > Len(variantResults) THEN winner
    ELSE WinnerFrom(variantResults, i + 1,
                    IF RateGreater(variantResults[i], winner) THEN variantResults[i] ELSE winner)

DetermineWinner(variantResults) ==
    IF Len(variantResults) = 0 THEN <<>>
    ELSE << WinnerFrom(variantResults, 2, variantResults[1]) >>

\* Array.prototype.sort((a, b) => b.conversionRate - a.conversionRate): stable, descending
RECURSIVE InsertByRate(_, _)
InsertByRate(sorted, x) ==
    IF Len(sorted) = 0 THEN <<x>>
    ELSE IF RateGreater(x, sorted[Len(sorted)])
         THEN Append(InsertByRate(SubSeq(sorted, 1, Len(sorted) - 1), x), sorted[Len(sorted)])
         ELSE Append(sorted, x)

RECURSIVE SortByRate(_, _)
SortByRate(variantResults, n) ==
    IF n = 0 THEN <<>>
    ELSE InsertByRate(SortByRate(variantResults, n - 1), variantResults[n])

\* a check that lets the intervals touch: >= in place of >
CheckSignificanceTouching(variantResults) ==
    IF Len(variantResults) < 2 THEN FALSE
    ELSE LET sorted == SortByRate(variantResults, Len(variantResults))
             best == sorted[1]
             second == sorted[2]
         IN  /\ best.confidence # <<>>
             /\ second.confidence # <<>>
             /\ best.confidence[1].lower >= second.confidence[1].upper

\* checkStatisticalSignificance (it sorts variantResults in place first)
CheckStatisticalSignificance(variantResults) ==
    IF Len(variantResults) < 2 THEN FALSE
    ELSE LET sorted == SortByRate(variantResults, Len(variantResults))
             best == sorted[1]
             second == sorted[2]
         IN  /\ best.confidence # <<>>
             /\ second.confidence # <<>>
             /\ best.confidence[1].lower > second.confidence[1].upper

\* the { _id: variant, count } groups of the $match/$group pipeline on the assignments
AggregateAssignments(testId) ==
    { [variant |-> n, count |-> Cardinality({a \in assignments : a.testId = testId /\ a.variant = n})] :
        n \in {a.variant : a \in {b \in assignments : b.testId = testId}} }

\* getAddOnConversionAnalytics: one row per (productId, addOnId) of the stored events
\* with its view/click/cart/purchase counts; a row carries no metadata
ConversionRows ==
    { [productId |-> eventStore[i].productId, addOnId |-> eventStore[i].addOnId] :
        i \in 1..Len(eventStore) }

\* conversionData.filter(c => c.metadata?.abTestVariant === variant.name).length
Conversions(conversionData, variantName) ==
    Cardinality({c \in conversionData :
                    "metadata" \in DOMAIN c /\ c.metadata.abTestVariant = variantName})

CountOf(groups, variantName) ==
    IF \E g \in groups : g.variant = variantName
    THEN (CHOOSE g \in groups : g.variant = variantName).count
    ELSE 0

\* the loop of getTestResults over test.variants, then winner and significance
ComputeResults(test, groups, conversionData) ==
    LET z100 == IF test.confidenceLevel = 95 THEN 196 ELSE 258
        raw == [i \in 1..Len(test.variants) |->
                  LET n == CountOf(groups, test.variants[i].name)
                      c == Conversions(conversionData, test.variants[i].name)
                  IN  [variant |-> test.variants[i].name, sampleSize |-> n, conversions |-> c,
                       confidence |-> CalculateConfidence(n, c, z100)]]
        winner == DetermineWinner(raw)
    IN  [winner |-> IF winner = <<>> THEN <<>> ELSE << winner[1].variant >>,
         statisticalSignificance |-> CheckStatisticalSignificance(raw),
         variantResults |->
            IF Len(raw) < 2 THEN raw ELSE SortByRate(raw, Len(raw))]


(***************************************************************************)
(* State                                                                   *)
(***************************************************************************)
\* the concurrent getUserVariant callers
Callers == {"c1", "c2"}
\* the concurrent callers of analyticsService.trackEvent
Trackers == {"t1", "t2"}
\* the concurrent PATCH requests on receipts (confirm or decline)
Verifiers == {"v1", "v2"}
\* one request in flight per route, the refresh timer, the callers, the trackers
\* and a direct call of one of the service's synchronous methods
Procs == {"start", "complete", "update", "delete", "timer", "convert", "analyzer"}
            \cup Callers \cup Trackers \cup Verifiers

NoLoc == [none |-> TRUE]
NoResp == [proc |-> "none", op |-> "none", code |-> 0, body |-> <<>>, info |-> NoLoc]
Resp(p, o, c, b, i) == [proc |-> p, op |-> o, code |-> c, body |-> b, info |-> i]

FindById(testId) == {t \in tests : t.id = testId}

\* new ABTest(testConfig): status defaults to draft, confidenceLevel to 0.95
NewTest(id, testConfig) ==
    [id |-> id, name |-> testConfig.name, status |-> "draft",
     variants |-> WithDefaults(testConfig.variants),
     targetAudience |-> testConfig.targetAudience,
     confidenceLevel |-> 95, results |-> <<>>]

\* the collections of the A/B testing and analytics services are empty, the cache
\* and the event queue are empty
InitService ==
    /\ tests = {}
    /\ nextId = 1
    /\ cache = {}
    /\ assignments = {}
    /\ eventStore = <<>>
    /\ eventQueue = <<>>
    /\ flights = {}
    /\ submitted = <<>>
    /\ failed = FALSE
    /\ resp = NoResp
    /\ firstVariant = {}
    /\ requests = 0

\* no receipt has been uploaded either
InitData ==
    /\ InitService
    /\ receipts = {}
    /\ orders = <<>>

Init ==
    /\ InitData
    /\ pc = [p \in Procs |-> "idle"]
    /\ loc = [p \in Procs |-> NoLoc]

Goto(p, label, l) ==
    /\ pc' = [pc EXCEPT ![p] = label]
    /\ loc' = [loc EXCEPT ![p] = l]

Return(p) == Goto(p, "idle", NoLoc)

\* a request arrives (or the timer fires)
Begin ==
    /\ requests < MaxRequests
    /\ requests' = requests + 1

(***************************************************************************)
(* POST /create -> createTest                                              *)
(***************************************************************************)
CreateTest(testConfig) ==
    /\ Begin
    /\ IF TrafficCheckFails(testConfig.variants)
       THEN \* throw new Error('Variant traffic percentages must sum to 100%')
            /\ resp' = Resp("create", "createTest", 400, <<>>, [variants |-> testConfig.variants])
            /\ UNCHANGED <<tests, nextId>>
       ELSE IF \E t \in tests : t.name = testConfig.name
       THEN \* test.save() fails on the unique index on name
            /\ resp' = Resp("create", "createTest", 400, <<>>, [variants |-> testConfig.variants])
            /\ UNCHANGED <<tests, nextId>>
       ELSE /\ nextId <= MaxTests
            /\ tests' = tests \cup {NewTest(nextId, testConfig)}
            /\ nextId' = nextId + 1
            /\ resp' = Resp("create", "createTest", 201, <<>>, [variants |-> testConfig.variants])
    /\ UNCHANGED <<cache, assignments, analytics, pc, loc, firstVariant>>
    /\ UNCHANGED verification

(***************************************************************************)
(* refreshActiveTests, as run by the timer, startTest and completeTest     *)
(***************************************************************************)
Refreshers == {"start", "complete", "timer"}

\* what the caller of refreshActiveTests does once it has returned
AfterRefresh(p) ==
    /\ Return(p)
    /\ resp' = IF p = "timer" THEN NoResp
               ELSE IF ~loc[p].updated
               THEN \* test is null: reading test.name throws, the route answers 400
                    Resp(p, loc[p].op, 400, <<>>, [testId |-> loc[p].testId])
               ELSE Resp(p, loc[p].op, 200, <<>>, [testId |-> loc[p].testId])

\* await ABTest.find({ status: 'active' }).lean(); a failed read is logged and dropped
RefreshRead(p, ok) ==
    /\ IF p = "timer" THEN Begin ELSE UNCHANGED requests
    /\ p \in Refreshers
    /\ IF p = "timer" THEN pc[p] = "idle" ELSE pc[p] = "refresh"
    /\ IF ok
       THEN /\ Goto(p, "swap", [activeTests |-> {t \in tests : t.status = "active"}] @@ loc[p])
            /\ resp' = NoResp
       ELSE AfterRefresh(p)
    /\ UNCHANGED <<tests, nextId, cache, assignments, analytics, firstVariant>>
    /\ UNCHANGED verification

\* a refresh that lets readers in while the Map is being filled again: the cache
\* holds any part of what was read
RefreshSwapPartial(p) ==
    /\ UNCHANGED requests
    /\ p \in Refreshers
    /\ pc[p] = "swap"
    /\ \E part \in SUBSET loc[p].activeTests : cache' = part
    /\ AfterRefresh(p)
    /\ UNCHANGED <<tests, nextId, assignments, analytics, firstVariant>>
    /\ UNCHANGED verification

\* this.cache.clear(); activeTests.forEach(test => this.cache.set(...))
RefreshSwap(p) ==
    /\ UNCHANGED requests
    /\ p \in Refreshers
    /\ pc[p] = "swap"
    /\ cache' = loc[p].activeTests
    /\ AfterRefresh(p)
    /\ UNCHANGED <<tests, nextId, assignments, analytics, firstVariant>>
    /\ UNCHANGED verification

(***************************************************************************)
(* POST /:testId/start -> startTest                                        *)
(***************************************************************************)
\* ABTest.findByIdAndUpdate(testId, { status: 'active', startDate }, { new: true })
StartWrite(testId) ==
    /\ Begin
    /\ pc["start"] = "idle"
    /\ tests' = {IF t.id = testId THEN [t EXCEPT !.status = "active"] ELSE t : t \in tests}
    /\ Goto("start", "refresh",
            [op |-> "startTest", testId |-> testId, updated |-> FindById(testId) # {}])
    /\ resp' = NoResp
    /\ UNCHANGED <<nextId, cache, assignments, analytics, firstVariant>>
    /\ UNCHANGED verification

(***************************************************************************)
(* POST /:testId/complete -> completeTest -> getTestResults                *)
(***************************************************************************)
\* getTestResults: ABTest.findById(testId); 'Test not found' when there is none
CompleteFind(testId, ok) ==
    /\ Begin
    /\ pc["complete"] = "idle"
    /\ IF ok /\ FindById(testId) # {}
       THEN /\ Goto("complete", "aggregate",
                    [op |-> "completeTest", testId |-> testId,
                     found |-> CHOOSE t \in FindById(testId) : TRUE])
            /\ resp' = NoResp
       ELSE /\ resp' = Resp("complete", "completeTest", 400, <<>>, [testId |-> testId])
            /\ UNCHANGED <<pc, loc>>
    /\ UNCHANGED <<tests, nextId, cache, assignments, analytics, firstVariant>>
    /\ UNCHANGED verification

\* getTestResults: UserTestAssignment.aggregate([...])
CompleteAggregate(ok) ==
    /\ UNCHANGED requests
    /\ pc["complete"] = "aggregate"
    /\ IF ok
       THEN /\ Goto("complete", "analytics",
                    [groups |-> AggregateAssignments(loc["complete"].testId)] @@ loc["complete"])
            /\ resp' = NoResp
       ELSE /\ Return("complete")
            /\ resp' = Resp("complete", "completeTest", 400, <<>>,
                            [testId |-> loc["complete"].testId])
    /\ UNCHANGED <<tests, nextId, cache, assignments, analytics, firstVariant>>
    /\ UNCHANGED verification

\* getTestResults: analyticsService.getAddOnConversionAnalytics (which returns []
\* when its query fails), then the results are computed
CompleteAnalytics(ok) ==
    /\ UNCHANGED requests
    /\ pc["complete"] = "analytics"
    /\ Goto("complete", "write",
            [results |-> ComputeResults(loc["complete"].found, loc["complete"].groups,
                                        IF ok THEN ConversionRows ELSE {}),
             queryFailed |-> ~ok]
            @@ loc["complete"])
    /\ resp' = NoResp
    /\ UNCHANGED <<tests, nextId, cache, assignments, analytics, firstVariant>>
    /\ UNCHANGED verification

\* the document completeTest's findByIdAndUpdate leaves
Completed(t, results) == [t EXCEPT !.status = "completed", !.results = << results >>]

\* ABTest.findByIdAndUpdate(testId, { status: 'completed', 'results.*': ... }, { new: true })
CompleteWrite ==
    /\ UNCHANGED requests
    /\ pc["complete"] = "write"
    /\ tests' = {IF t.id = loc["complete"].testId
                 THEN Completed(t, loc["complete"].results) ELSE t : t \in tests}
    /\ Goto("complete", "refresh",
            [op |-> "completeTest", testId |-> loc["complete"].testId,
             updated |-> FindById(loc["complete"].testId) # {}])
    /\ resp' = NoResp
    /\ UNCHANGED <<nextId, cache, assignments, analytics, firstVariant>>
    /\ UNCHANGED verification

(***************************************************************************)
(* PUT /:testId                                                            *)
(***************************************************************************)
\* findByIdAndUpdate(testId, updates): the fields of the request body replace the document's
ApplyUpdates(t, updates) ==
    [f \in DOMAIN t |-> IF f \in DOMAIN updates THEN updates[f] ELSE t[f]]

\* const existingTest = await ABTest.findById(testId); 400 when it is active
UpdateCheck(testId, updates) ==
    /\ Begin
    /\ pc["update"] = "idle"
    /\ IF \E t \in FindById(testId) : t.status = "active"
       THEN /\ resp' = Resp("update", "update", 400, <<>>,
                            [testId |-> testId, updates |-> updates])
            /\ UNCHANGED <<pc, loc>>
       ELSE /\ Goto("update", "write", [testId |-> testId, updates |-> updates])
            /\ resp' = NoResp
    /\ UNCHANGED <<tests, nextId, cache, assignments, analytics, firstVariant>>
    /\ UNCHANGED verification

\* await ABTest.findByIdAndUpdate(testId, updates, { new: true, runValidators: true })
UpdateWrite ==
    /\ UNCHANGED requests
    /\ pc["update"] = "write"
    /\ tests' = {IF t.id = loc["update"].testId
                 THEN ApplyUpdates(t, loc["update"].updates) ELSE t : t \in tests}
    /\ resp' = IF FindById(loc["update"].testId) = {}
               THEN Resp("update", "update", 404, <<>>, loc["update"])
               ELSE Resp("update", "update", 200, <<>>, loc["update"])
    /\ Return("update")
    /\ UNCHANGED <<nextId, cache, assignments, analytics, firstVariant>>
    /\ UNCHANGED verification

(***************************************************************************)
(* DELETE /:testId                                                         *)
(***************************************************************************)
\* const existingTest = await ABTest.findById(testId); 400 when it is active
DeleteCheck(testId) ==
    /\ Begin
    /\ pc["delete"] = "idle"
    /\ IF \E t \in FindById(testId) : t.status = "active"
       THEN /\ resp' = Resp("delete", "delete", 400, <<>>, [testId |-> testId])
            /\ UNCHANGED <<pc, loc>>
       ELSE /\ Goto("delete", "delete", [testId |-> testId])
            /\ resp' = NoResp
    /\ UNCHANGED <<tests, nextId, cache, assignments, analytics, firstVariant>>
    /\ UNCHANGED verification

\* const test = await ABTest.findByIdAndDelete(testId); 404 when there is none
DeleteTest ==
    /\ UNCHANGED requests
    /\ pc["delete"] = "delete"
    /\ tests' = tests \ FindById(loc["delete"].testId)
    /\ IF FindById(loc["delete"].testId) = {}
       THEN /\ Return("delete")
            /\ resp' = Resp("delete", "delete", 404, <<>>, loc["delete"])
       ELSE /\ Goto("delete", "cascade", loc["delete"])
            /\ resp' = NoResp
    /\ UNCHANGED <<nextId, cache, assignments, analytics, firstVariant>>
    /\ UNCHANGED verification

\* await UserTestAssignment.deleteMany({ testId })
DeleteAssignments ==
    /\ UNCHANGED requests
    /\ pc["delete"] = "cascade"
    /\ assignments' = {a \in assignments : a.testId # loc["delete"].testId}
    /\ Return("delete")
    /\ resp' = Resp("delete", "delete", 200, <<>>, loc["delete"])
    /\ UNCHANGED <<tests, nextId, cache, analytics, firstVariant>>
    /\ UNCHANGED verification


(***************************************************************************)
(* shouldCompleteTest                                                      *)
(***************************************************************************)
RECURSIVE TotalSamples(_, _)
\* variantResults.reduce((sum, v) => sum + v.sampleSize, 0)
TotalSamples(variantResults, i) ==
    IF i > Len(variantResults) THEN 0
    ELSE variantResults[i].sampleSize + TotalSamples(variantResults, i + 1)

\* shouldCompleteTest; now is new Date(), an absent endDate is <<>>
ShouldCompleteTest(test, variantResults, now) ==
    IF TotalSamples(variantResults, 1) < test.minSampleSize THEN FALSE
    ELSE IF test.endDate # <<>> /\ now > test.endDate[1] THEN TRUE
    ELSE CheckStatisticalSignificance(variantResults)

\* the entry of variantResults getTestResults builds for a variant with the given
\* counts, at the 95% confidence level
VariantResult(variantName, sampleSize, conversions) ==
    [variant |-> variantName, sampleSize |-> sampleSize, conversions |-> conversions,
     confidence |-> CalculateConfidence(sampleSize, conversions, 196)]

\* <<sampleSize, conversions>> of a variant
Counts == {<<0, 0>>, <<5, 0>>, <<5, 3>>, <<10, 0>>, <<10, 5>>, <<250, 0>>, <<250, 5>>,
           <<500, 0>>, <<500, 2>>}

\* the clock reads 2; an end date of 1 has passed, one of 3 has not
Now == 2
EndDates == {<<>>, <<1>>, <<3>>}
\* the schema default 1000 and a small threshold
MinSampleSizes == {10, 1000}

ShouldCompleteInputs ==
    [test : [minSampleSize : MinSampleSizes, endDate : EndDates, confidenceLevel : {95}],
     a : Counts, b : Counts]

\* a call of shouldCompleteTest is about to be made with some test and results
InitShouldComplete ==
    /\ InitData
    /\ \E input \in ShouldCompleteInputs :
          /\ pc = [p \in Procs |-> IF p = "analyzer" THEN "shouldCompleteTest" ELSE "idle"]
          /\ loc = [p \in Procs |-> IF p = "analyzer" THEN input ELSE NoLoc]

ShouldCompleteTestCall ==
    /\ pc["analyzer"] = "shouldCompleteTest"
    /\ LET input == loc["analyzer"]
           variantResults == << VariantResult("A", input.a[1], input.a[2]),
                                VariantResult("B", input.b[1], input.b[2]) >>
       IN  resp' = Resp("analyzer", "shouldCompleteTest", 200,
                        << ShouldCompleteTest(input.test, variantResults, Now) >>,
                        [test |-> input.test, variantResults |-> variantResults])
    /\ Return("analyzer")
    /\ UNCHANGED <<tests, nextId, cache, assignments, analytics, firstVariant, requests>>
    /\ UNCHANGED verification

SpecShouldComplete == InitShouldComplete /\ [][ShouldCompleteTestCall]_vars

(***************************************************************************)
(* AnalyticsService: trackEvent, the flush timer, flushEvents              *)
(***************************************************************************)
\* analyticsEventSchema.eventType.enum
EventTypes ==
    {"product_view", "addon_view", "addon_click", "addon_add_to_cart", "addon_purchase",
     "product_search", "category_browse", "seller_view", "displayaddons_shown",
     "related_product_click"}

\* analyticsEventSchema.metadata.displayType.enum
DisplayTypes == {"addon", "related_product", "fallback"}

\* the metadata keys the model follows; "" is an absent key
NoMetadata == [abTestName |-> "", abTestVariant |-> "", displayType |-> ""]

\* the object a caller hands to trackEvent; "" is an absent eventType
Event(eventType, productId, userId, sessionId, metadata) ==
    [eventType |-> eventType, productId |-> productId, addOnId |-> None,
     userId |-> userId, sessionId |-> sessionId, metadata |-> metadata]

\* the validation insertMany runs on a document: eventType is required and
\* enumerated, metadata.displayType is enumerated when given
Valid(e) ==
    /\ e.eventType \in EventTypes
    /\ e.metadata.displayType \in DisplayTypes \cup {""}

AllValid(events) == \A i \in 1..Len(events) : Valid(events[i])

\* the document Mongoose builds from an event: the schema is strict, so of the
\* metadata only the declared paths are kept (abTestName and abTestVariant are not)
Document(e) == [e EXCEPT !.metadata = [displayType |-> e.metadata.displayType]]

Documents(events) == [i \in 1..Len(events) |-> Document(events[i])]

\* const event = { ...eventData, timestamp: new Date() }; seq, the order of
\* arrival, stands for the timestamp and identifies the event
Stamp(eventData) == [seq |-> Len(submitted) + 1] @@ eventData

\* const eventsToFlush = [...this.eventQueue]
Snapshot(queue) == queue

\* a bug flushEvents could have: the clearing of the queue misses the event that
\* was appended last
KeepsLast(queue) == IF Len(queue) = 0 THEN <<>> ELSE << queue[Len(queue)] >>

\* this.eventQueue = []
AfterSnapshot(queue) == <<>>

\* a bug flushEvents could have: the failed batch is put behind the pending events
RequeueBehind(eventsToFlush, queue) == queue \o eventsToFlush

\* this.eventQueue.unshift(...eventsToFlush)
Requeue(eventsToFlush, queue) == eventsToFlush \o queue

\* whether the push of one more event brings the queue to batchSize
Full == Len(eventQueue) + 1 >= BatchSize

\* whether p awaits a flushEvents call
Awaiting(p) == \E f \in flights : f.waiter = p

\* flushEvents up to its await: the queue is copied and emptied, insertMany is called
FlushEvents(queue, waiter) ==
    /\ flights' = flights \cup {[events |-> Snapshot(queue), waiter |-> waiter]}
    /\ eventQueue' = AfterSnapshot(queue)

\* trackEvent up to its first await: the event is stamped and pushed, and a queue
\* that has reached batchSize is flushed
TrackEvent(p, eventData) ==
    LET event == Stamp(eventData)
        queue == Append(eventQueue, event)
    IN  /\ Len(submitted) < MaxEvents
        /\ submitted' = Append(submitted, event)
        /\ IF Full
           THEN FlushEvents(queue, p)
           ELSE /\ eventQueue' = queue
                /\ UNCHANGED flights
        /\ UNCHANGED <<eventStore, failed>>

\* a caller of trackEvent (the product listing, the interaction route)
Submit(t, eventData) ==
    /\ t \in Trackers
    /\ pc[t] = "idle"
    \* the trackers are interchangeable: the second one is used while the first is busy
    /\ t = "t2" => pc["t1"] # "idle"
    /\ TrackEvent(t, eventData)
    /\ IF Full
       THEN /\ Goto(t, "flushing", [event |-> Stamp(eventData)])
            /\ resp' = NoResp
       ELSE /\ resp' = Resp(t, "trackEvent", 200, <<>>, [event |-> Stamp(eventData)])
            /\ UNCHANGED <<pc, loc>>
    /\ UNCHANGED <<tests, nextId, cache, assignments, firstVariant, requests>>
    /\ UNCHANGED verification

\* trackEvent returns true once the flush it awaited has settled
SubmitReturn(t) ==
    /\ t \in Trackers
    /\ pc[t] = "flushing"
    /\ ~Awaiting(t)
    /\ resp' = Resp(t, "trackEvent", 200, <<>>, loc[t])
    /\ Return(t)
    /\ UNCHANGED <<tests, nextId, cache, assignments, analytics, firstVariant, requests>>
    /\ UNCHANGED verification

\* the setInterval callback of startBatchProcessor: flushEvents, which returns at
\* once when the queue is empty
FlushTimer ==
    /\ eventQueue # <<>>
    /\ FlushEvents(eventQueue, "interval")
    /\ resp' = NoResp
    /\ UNCHANGED <<tests, nextId, cache, assignments, eventStore, submitted, failed,
                   pc, loc, firstVariant, requests>>
    /\ UNCHANGED verification

\* await AnalyticsEvent.insertMany(eventsToFlush) settles.  It resolves when every
\* document is valid and the storage takes them; it is rejected by the first
\* invalid document before anything is written, or by the storage after the first
\* k documents were written; the catch block puts the whole batch back.
InsertMany(f, ok, k) ==
    /\ f \in flights
    /\ flights' = flights \ {f}
    /\ IF ok /\ AllValid(f.events)
       THEN /\ k = 0
            /\ eventStore' = eventStore \o Documents(f.events)
            /\ UNCHANGED <<eventQueue, failed>>
       ELSE /\ k <= Len(f.events)
            /\ k > 0 => (~ok /\ AllValid(f.events) /\ Len(eventStore) + k <= MaxStored)
            /\ eventStore' = eventStore \o Documents(SubSeq(f.events, 1, k))
            /\ eventQueue' = Requeue(f.events, eventQueue)
            /\ failed' = TRUE
    /\ resp' = Resp(f.waiter, "insertMany", IF ok /\ AllValid(f.events) THEN 200 ELSE 500,
                    <<>>, [events |-> f.events, written |-> k])
    /\ UNCHANGED <<tests, nextId, cache, assignments, submitted, pc, loc, firstVariant,
                   requests>>
    /\ UNCHANGED verification

(***************************************************************************)
(* getUserVariant                                                          *)
(***************************************************************************)
\* the unit a call is for: the user id if present, else the session id
UnitOf(userId, sessionId) == HashInput(userId, sessionId)

\* UserTestAssignment.findOne({ testId, $or: [{ userId }, { sessionId }] }): the
\* documents the filter matches; an absent id is sent as null and matches every
\* document without that field
MatchingAssignments(testId, userId, sessionId) ==
    {a \in assignments : a.testId = testId /\ (a.userId = userId \/ a.sessionId = sessionId)}

\* the unique indexes { userId, testId } and { sessionId, testId }: what an insert
\* of (userId, sessionId, testId) collides with; a missing key is indexed as null
DuplicateKeys(testId, userId, sessionId) ==
    {a \in assignments : a.testId = testId /\ (a.userId = userId \/ a.sessionId = sessionId)}

\* test.variants.find(v => v.name === variant)?.config
ConfigOf(variants, variantName) ==
    IF \E i \in 1..Len(variants) : variants[i].name = variantName
    THEN << variants[CHOOSE i \in 1..Len(variants) : variants[i].name = variantName].config >>
    ELSE <<>>

\* whether a call has already returned a variant to the unit for the experiment
Returned(unit, testId) == \E f \in firstVariant : f.unit = unit /\ f.testId = testId

Remember(unit, testId, variantName) ==
    IF Returned(unit, testId)
    THEN firstVariant
    ELSE firstVariant \cup {[unit |-> unit, testId |-> testId, variant |-> variantName]}

CallInfo(c, step) ==
    [testId |-> loc[c].test.id, userId |-> loc[c].userId, sessionId |-> loc[c].sessionId,
     userMetadata |-> loc[c].userMetadata, later |-> loc[c].later,
     refusedBefore |-> loc[c].refusedBefore, step |-> step]

\* { ...testResult.config, variant: testResult.variant }
DisplayConfig(variantName, config) == [config |-> config, variant |-> variantName]

\* return null; getDisplayAddOnsConfig, when it is the caller, then returns the
\* default configuration
ReturnNull(c, step) ==
    /\ Return(c)
    /\ resp' = IF loc[c].via = "display"
               THEN Resp(c, "getDisplayAddOnsConfig", 200, << DefaultConfig >>,
                         CallInfo(c, step))
               ELSE Resp(c, "getUserVariant", 200, <<>>, CallInfo(c, step))
    /\ UNCHANGED <<firstVariant, analytics>>

\* a bug getUserVariant could have: the error is thrown on to the caller (where
\* the catch block of getDisplayAddOnsConfig still answers with the default)
Rethrow(c, step) ==
    /\ Return(c)
    /\ resp' = IF loc[c].via = "display"
               THEN Resp(c, "getDisplayAddOnsConfig", 200, << DefaultConfig >>,
                         CallInfo(c, step))
               ELSE Resp(c, "getUserVariant", 500, <<>>, CallInfo(c, step))
    /\ UNCHANGED <<firstVariant, analytics>>

\* catch (error) { console.error(...); return null; }
CatchError(c, step) == ReturnNull(c, step)

\* return { variant, config }; getDisplayAddOnsConfig, when it is the caller, then
\* tracks the displayaddons_shown event and returns the configuration
ReturnVariant(c, step, variantName, config) ==
    /\ firstVariant' = Remember(UnitOf(loc[c].userId, loc[c].sessionId), loc[c].test.id,
                                variantName)
    /\ IF loc[c].via = "display"
       THEN /\ TrackEvent(c, Event("displayaddons_shown", P1, loc[c].userId,
                                   loc[c].sessionId,
                                   [abTestName |-> "", abTestVariant |-> variantName,
                                    displayType |-> "ab_test"]))
            /\ IF Full
               THEN /\ Goto(c, "flushing",
                            [shown |-> DisplayConfig(variantName, config), step |-> step]
                            @@ loc[c])
                    /\ resp' = NoResp
               ELSE /\ Return(c)
                    /\ resp' = Resp(c, "getDisplayAddOnsConfig", 200,
                                    << DisplayConfig(variantName, config) >>,
                                    CallInfo(c, step))
       ELSE /\ Return(c)
            /\ resp' = Resp(c, "getUserVariant", 200,
                            << [variant |-> variantName, config |-> config] >>,
                            CallInfo(c, step))
            /\ UNCHANGED analytics

\* whether the response just given refused the same unit for the same experiment
\* on the targeting rules
RefusedJust(testId, userId, sessionId) ==
    /\ resp.op \in {"getUserVariant", "getDisplayAddOnsConfig"}
    /\ resp.info.step = "targeting"
    /\ resp.info.testId = testId
    /\ resp.info.userId = userId
    /\ resp.info.sessionId = sessionId

\* Array.from(this.cache.values()).find(t => t.name === testName); null unless active
Lookup(c, via, testName, userId, sessionId, userMetadata) ==
    /\ Begin
    /\ c \in Callers
    /\ pc[c] = "idle"
    \* the callers are interchangeable: the second one is used while the first is busy
    /\ c = "c2" => pc["c1"] # "idle"
    /\ IF \E t \in cache : t.name = testName /\ t.status = "active"
       THEN \E t \in cache :
              /\ t.name = testName /\ t.status = "active"
              /\ Goto(c, "find", [via |-> via, test |-> t, userId |-> userId,
                                  sessionId |-> sessionId, userMetadata |-> userMetadata,
                                  later |-> Returned(UnitOf(userId, sessionId), t.id),
                                  refusedBefore |-> RefusedJust(t.id, userId, sessionId)])
              /\ resp' = NoResp
       ELSE /\ LET info == [testId |-> 0, userId |-> userId, sessionId |-> sessionId,
                            userMetadata |-> userMetadata, later |-> FALSE,
                            refusedBefore |-> FALSE, step |-> "lookup"]
               IN  resp' = IF via = "display"
                           THEN Resp(c, "getDisplayAddOnsConfig", 200, << DefaultConfig >>, info)
                           ELSE Resp(c, "getUserVariant", 200, <<>>, info)
            /\ UNCHANGED <<pc, loc>>
    /\ UNCHANGED <<tests, nextId, cache, assignments, analytics, firstVariant>>
    /\ UNCHANGED verification

\* GET /variant/:testName -> getUserVariant
GetVariantLookup(c, testName, userId, sessionId, userMetadata) ==
    Lookup(c, "route", testName, userId, sessionId, userMetadata)

\* getDisplayAddOnsConfig -> getUserVariant('displayaddons_optimization', ...)
GetDisplayAddOnsConfig(c, userId, sessionId, userMetadata) ==
    Lookup(c, "display", "displayaddons_optimization", userId, sessionId, userMetadata)

\* a bug getUserVariant could have: the refusal is stored, as an assignment to no variant
TargetingMissStored(c) ==
    /\ ReturnNull(c, "targeting")
    /\ assignments' = assignments \cup
          {[userId |-> loc[c].userId, sessionId |-> loc[c].sessionId,
            testId |-> loc[c].test.id, variant |-> "none"]}

\* if (!this.matchesTargetAudience(test, userMetadata)) { return null; }
TargetingMiss(c) ==
    /\ ReturnNull(c, "targeting")
    /\ UNCHANGED assignments

\* await UserTestAssignment.findOne(...), then the targeting check and assignVariant,
\* which returns undefined for an empty variant list: reading its name throws
GetVariantFind(c, ok) ==
    /\ UNCHANGED requests
    /\ c \in Callers
    /\ pc[c] = "find"
    /\ LET test == loc[c].test
           existing == MatchingAssignments(test.id, loc[c].userId, loc[c].sessionId)
       IN  \/ /\ ~ok
              /\ CatchError(c, "find failed")
              /\ UNCHANGED assignments
           \/ /\ ok
              /\ \E existingAssignment \in existing :
                    ReturnVariant(c, "existing", existingAssignment.variant,
                                  ConfigOf(test.variants, existingAssignment.variant))
              /\ UNCHANGED assignments
           \/ /\ ok
              /\ existing = {}
              /\ ~MatchesTargetAudience(test.targetAudience, loc[c].userMetadata)
              /\ TargetingMiss(c)
           \/ /\ ok
              /\ existing = {}
              /\ MatchesTargetAudience(test.targetAudience, loc[c].userMetadata)
              /\ IF test.variants = <<>>
                 THEN CatchError(c, "assign failed")
                 ELSE /\ Goto(c, "save",
                              [variant |-> AssignVariant(test.variants, loc[c].userId,
                                                         loc[c].sessionId)]
                              @@ loc[c])
                      /\ resp' = NoResp
                      /\ UNCHANGED <<firstVariant, analytics>>
              /\ UNCHANGED assignments
    /\ UNCHANGED <<tests, nextId, cache>>
    /\ UNCHANGED verification

\* await assignment.save(); any error, a duplicate key included, is caught: return null
GetVariantSave(c, ok) ==
    /\ UNCHANGED requests
    /\ c \in Callers
    /\ pc[c] = "save"
    /\ LET test == loc[c].test
       IN  \/ /\ ~ok
              /\ CatchError(c, "save failed")
              /\ UNCHANGED assignments
           \/ /\ ok
              /\ DuplicateKeys(test.id, loc[c].userId, loc[c].sessionId) # {}
              /\ CatchError(c, "duplicate")
              /\ UNCHANGED assignments
           \/ /\ ok
              /\ DuplicateKeys(test.id, loc[c].userId, loc[c].sessionId) = {}
              /\ assignments' = assignments \cup
                    {[userId |-> loc[c].userId, sessionId |-> loc[c].sessionId,
                      testId |-> test.id, variant |-> loc[c].variant.name]}
              /\ ReturnVariant(c, "saved", loc[c].variant.name, << loc[c].variant.config >>)
    /\ UNCHANGED <<tests, nextId, cache>>
    /\ UNCHANGED verification

\* getDisplayAddOnsConfig returns the configuration once the flush that trackEvent
\* awaited has settled
DisplayReturn(c) ==
    /\ UNCHANGED requests
    /\ c \in Callers
    /\ pc[c] = "flushing"
    /\ ~Awaiting(c)
    /\ resp' = Resp(c, "getDisplayAddOnsConfig", 200, << loc[c].shown >>,
                    CallInfo(c, loc[c].step))
    /\ Return(c)
    /\ UNCHANGED <<tests, nextId, cache, assignments, analytics, firstVariant>>
    /\ UNCHANGED verification

(***************************************************************************)
(* POST /track/conversion -> trackConversion                               *)
(***************************************************************************)
\* { abTestName, abTestVariant, ...conversionData }: a key of conversionData
\* replaces the key written before the spread
ConversionMetadata(testName, variantName, conversionData) ==
    LET base == [abTestName |-> testName, abTestVariant |-> variantName, displayType |-> ""]
    IN  [k \in DOMAIN base |-> IF k \in DOMAIN conversionData THEN conversionData[k] ELSE base[k]]

\* what trackConversion leaves in resp when it returns (it returns undefined and
\* the route answers 200 whatever happened)
ConversionInfo(l, step, variantName) ==
    [testName |-> l.testName, userId |-> l.userId, sessionId |-> l.sessionId,
     conversionData |-> l.conversionData, step |-> step, variant |-> variantName]

\* await ABTest.find({ name: testName }).distinct('_id'); an error is caught and logged
TrackConversionIds(testName, userId, sessionId, conversionData, ok) ==
    /\ Begin
    /\ pc["convert"] = "idle"
    /\ LET l == [testName |-> testName, userId |-> userId, sessionId |-> sessionId,
                 conversionData |-> conversionData,
                 ids |-> {t.id : t \in {u \in tests : u.name = testName}}]
       IN  IF ok
           THEN /\ Goto("convert", "find", l)
                /\ resp' = NoResp
           ELSE /\ resp' = Resp("convert", "trackConversion", 200, <<>>,
                                ConversionInfo(l, "ids failed", ""))
                /\ UNCHANGED <<pc, loc>>
    /\ UNCHANGED <<tests, nextId, cache, assignments, analytics, firstVariant>>
    /\ UNCHANGED verification

\* UserTestAssignment.findOne({ testId: { $in: ids }, $or: [{ userId }, { sessionId }] }):
\* the documents the filter matches
ConversionMatches(ids, userId, sessionId) ==
    {a \in assignments : a.testId \in ids /\ (a.userId = userId \/ a.sessionId = sessionId)}

\* await UserTestAssignment.findOne(...); if (assignment) await trackEvent({...})
TrackConversionFind(ok) ==
    /\ UNCHANGED requests
    /\ pc["convert"] = "find"
    /\ LET l == loc["convert"]
           matching == ConversionMatches(l.ids, l.userId, l.sessionId)
       IN  IF ~ok
           THEN /\ Return("convert")
                /\ resp' = Resp("convert", "trackConversion", 200, <<>>,
                                ConversionInfo(l, "find failed", ""))
                /\ UNCHANGED analytics
           ELSE IF matching = {}
           THEN /\ Return("convert")
                /\ resp' = Resp("convert", "trackConversion", 200, <<>>,
                                ConversionInfo(l, "none", ""))
                /\ UNCHANGED analytics
           ELSE \E assignment \in matching :
                  /\ TrackEvent("convert",
                        Event("addon_purchase", None, l.userId, l.sessionId,
                              ConversionMetadata(l.testName, assignment.variant,
                                                 l.conversionData)))
                  /\ IF Full
                     THEN /\ Goto("convert", "flushing",
                                  [variant |-> assignment.variant] @@ l)
                          /\ resp' = NoResp
                     ELSE /\ Return("convert")
                          /\ resp' = Resp("convert", "trackConversion", 200, <<>>,
                                          ConversionInfo(l, "emitted", assignment.variant))
    /\ UNCHANGED <<tests, nextId, cache, assignments, firstVariant>>
    /\ UNCHANGED verification

\* trackEvent returns once the flush it awaited has settled
TrackConversionReturn ==
    /\ UNCHANGED requests
    /\ pc["convert"] = "flushing"
    /\ ~Awaiting("convert")
    /\ Return("convert")
    /\ resp' = Resp("convert", "trackConversion", 200, <<>>,
                    ConversionInfo(loc["convert"], "emitted", loc["convert"].variant))
    /\ UNCHANGED <<tests, nextId, cache, assignments, analytics, firstVariant>>
    /\ UNCHANGED verification

(***************************************************************************)
(* The requests of the model and the specification                         *)
(***************************************************************************)
TestIds == 1..MaxTests

TestConfigs ==
    [name : TestNames, variants : CreateVariants, targetAudience : Audiences]

\* request bodies of PUT /:testId
Updates == {[variants |-> V4060], [variants |-> V6039], [status |-> "paused"]}

Next ==
    \/ \E testConfig \in TestConfigs : CreateTest(testConfig)
    \/ \E testId \in TestIds : StartWrite(testId)
    \/ \E p \in Refreshers, ok \in BOOLEAN : RefreshRead(p, ok)
    \/ \E p \in Refreshers : RefreshSwap(p)
    \/ \E testId \in TestIds, ok \in BOOLEAN : CompleteFind(testId, ok)
    \/ \E ok \in BOOLEAN : CompleteAggregate(ok)
    \/ \E ok \in BOOLEAN : CompleteAnalytics(ok)
    \/ CompleteWrite
    \/ \E testId \in TestIds, updates \in Updates : UpdateCheck(testId, updates)
    \/ UpdateWrite
    \/ \E testId \in TestIds : DeleteCheck(testId)
    \/ DeleteTest
    \/ DeleteAssignments
    \/ \E c \in Callers, testName \in TestNames, userId \in UserIds,
          sessionId \in SessionIds, userMetadata \in Metadatas :
            GetVariantLookup(c, testName, userId, sessionId, userMetadata)
    \/ \E c \in Callers, ok \in BOOLEAN : GetVariantFind(c, ok)
    \/ \E c \in Callers, ok \in BOOLEAN : GetVariantSave(c, ok)

Spec == Init /\ [][Next]_vars


\* no experiment-management request is in flight
OperatorIdle == \A p \in {"start", "complete", "update", "delete"} : pc[p] = "idle"

\* one operator, who sends the next experiment-management request once the last
\* one has been answered; the getUserVariant callers and the timer run alongside
NextOneOperator ==
    \/ \E testConfig \in TestConfigs : OperatorIdle /\ CreateTest(testConfig)
    \/ \E testId \in TestIds : OperatorIdle /\ StartWrite(testId)
    \/ \E p \in Refreshers, ok \in BOOLEAN : RefreshRead(p, ok)
    \/ \E p \in Refreshers : RefreshSwap(p)
    \/ \E testId \in TestIds, ok \in BOOLEAN : OperatorIdle /\ CompleteFind(testId, ok)
    \/ \E ok \in BOOLEAN : CompleteAggregate(ok)
    \/ \E ok \in BOOLEAN : CompleteAnalytics(ok)
    \/ CompleteWrite
    \/ \E testId \in TestIds, updates \in Updates :
          OperatorIdle /\ UpdateCheck(testId, updates)
    \/ UpdateWrite
    \/ \E testId \in TestIds : OperatorIdle /\ DeleteCheck(testId)
    \/ DeleteTest
    \/ DeleteAssignments
    \/ \E c \in Callers, testName \in TestNames, userId \in UserIds,
          sessionId \in SessionIds, userMetadata \in Metadatas :
            GetVariantLookup(c, testName, userId, sessionId, userMetadata)
    \/ \E c \in Callers, ok \in BOOLEAN : GetVariantFind(c, ok)
    \/ \E c \in Callers, ok \in BOOLEAN : GetVariantSave(c, ok)

SpecOneOperator == Init /\ [][NextOneOperator]_vars

\* the experiment-management requests alone, one at a time: no getUserVariant call
NextRegistry ==
    \/ \E testConfig \in TestConfigs : OperatorIdle /\ CreateTest(testConfig)
    \/ \E testId \in TestIds : OperatorIdle /\ StartWrite(testId)
    \/ \E p \in Refreshers, ok \in BOOLEAN : RefreshRead(p, ok)
    \/ \E p \in Refreshers : RefreshSwap(p)
    \/ \E testId \in TestIds, ok \in BOOLEAN : OperatorIdle /\ CompleteFind(testId, ok)
    \/ \E ok \in BOOLEAN : CompleteAggregate(ok)
    \/ \E ok \in BOOLEAN : CompleteAnalytics(ok)
    \/ CompleteWrite
    \/ \E testId \in TestIds, updates \in Updates :
          OperatorIdle /\ UpdateCheck(testId, updates)
    \/ UpdateWrite
    \/ \E testId \in TestIds : OperatorIdle /\ DeleteCheck(testId)
    \/ DeleteTest
    \/ DeleteAssignments

SpecRegistry == Init /\ [][NextRegistry]_vars

\* the values a client puts in conversionData
ConversionDatas == {[source |-> "checkout"], [source |-> "checkout", abTestVariant |-> "B"]}

\* one experiment for everyone, its assignments, their conversions, the flushes of
\* the event queue and the completion of the experiment
NextConversion ==
    \/ CreateTest([name |-> "displayaddons_optimization", variants |-> V6040,
                   targetAudience |-> AudAll])
    \/ StartWrite(1)
    \/ \E p \in Refreshers \ {"timer"}, ok \in BOOLEAN : RefreshRead(p, ok)
    \/ \E p \in Refreshers : RefreshSwap(p)
    \/ \E c \in Callers, testName \in TestNames, userId \in UserIds,
          sessionId \in SessionIds :
            GetVariantLookup(c, testName, userId, sessionId, MetaNone)
    \/ \E c \in Callers, ok \in BOOLEAN : GetVariantFind(c, ok)
    \/ \E c \in Callers, ok \in BOOLEAN : GetVariantSave(c, ok)
    \/ \E testName \in TestNames, userId \in UserIds, sessionId \in SessionIds,
          conversionData \in ConversionDatas, ok \in BOOLEAN :
            TrackConversionIds(testName, userId, sessionId, conversionData, ok)
    \/ \E ok \in BOOLEAN : TrackConversionFind(ok)
    \/ TrackConversionReturn
    \/ FlushTimer
    \/ \E f \in flights, ok \in BOOLEAN, k \in 0..1 : InsertMany(f, ok, k)
    \/ \E ok \in BOOLEAN : CompleteFind(1, ok)
    \/ \E ok \in BOOLEAN : CompleteAggregate(ok)
    \/ \E ok \in BOOLEAN : CompleteAnalytics(ok)
    \/ CompleteWrite

SpecConversion == Init /\ [][NextConversion]_vars

\* a product view, the display-shown event of getDisplayAddOnsConfig, an event of
\* a kind outside the enumeration and an event without a kind
ViewEvent == Event("product_view", P1, U1, None, NoMetadata)
ShownEvent ==
    Event("displayaddons_shown", P1, None, S1,
          [abTestName |-> "", abTestVariant |-> "A", displayType |-> "ab_test"])
UnknownKindEvent == Event("page_scroll", P1, None, S1, NoMetadata)
NoKindEvent == Event("", P1, None, S1, NoMetadata)

EventDatas == {ViewEvent, ShownEvent, UnknownKindEvent, NoKindEvent}

\* the analytics service alone: concurrent trackEvent calls, the flush timer and
\* the insertMany calls they start
NextEvents ==
    \/ \E t \in Trackers, eventData \in EventDatas : Submit(t, eventData)
    \/ \E t \in Trackers : SubmitReturn(t)
    \/ FlushTimer
    \/ \E f \in flights, ok \in BOOLEAN, k \in 0..1 : InsertMany(f, ok, k)

SpecEvents == Init /\ [][NextEvents]_vars

\* the storage takes the documents of an insertMany
StorageWorks == \E f \in flights : InsertMany(f, TRUE, 0)
\* an insertMany settles, one way or the other
Settles == \E f \in flights, ok \in BOOLEAN, k \in 0..1 : InsertMany(f, ok, k)

\* the same, where the interval timer keeps firing, every insertMany settles and
\* the storage does not fail for ever
FairSpecEvents ==
    /\ Init
    /\ [][NextEvents]_vars
    /\ WF_vars(FlushTimer)
    /\ WF_vars(Settles)
    /\ SF_vars(StorageWorks)

\* one experiment, which an update may leave without variants, and the callers of
\* getUserVariant and getDisplayAddOnsConfig, with the flushes of the events the
\* latter tracks
NextDisplay ==
    \/ CreateTest([name |-> "displayaddons_optimization", variants |-> V6040,
                   targetAudience |-> AudAll])
    \/ UpdateCheck(1, [variants |-> <<>>])
    \/ UpdateWrite
    \/ StartWrite(1)
    \/ \E ok \in BOOLEAN : RefreshRead("start", ok)
    \/ \E p \in Refreshers : RefreshSwap(p)
    \/ \E c \in Callers, testName \in TestNames, userId \in UserIds,
          sessionId \in SessionIds :
            GetVariantLookup(c, testName, userId, sessionId, MetaNone)
    \/ \E c \in Callers, userId \in UserIds, sessionId \in SessionIds :
            GetDisplayAddOnsConfig(c, userId, sessionId, MetaNone)
    \/ \E c \in Callers, ok \in BOOLEAN : GetVariantFind(c, ok)
    \/ \E c \in Callers, ok \in BOOLEAN : GetVariantSave(c, ok)
    \/ \E c \in Callers : DisplayReturn(c)
    \/ FlushTimer
    \/ \E f \in flights, ok \in BOOLEAN, k \in 0..1 : InsertMany(f, ok, k)

SpecDisplay == Init /\ [][NextDisplay]_vars

(***************************************************************************)
(* assignVariant, called directly                                          *)
(***************************************************************************)
\* "polygenelubricants", whose hash is -2^31
Polygene == <<112, 111, 108, 121, 103, 101, 110, 101, 108, 117, 98, 114, 105, 99, 97, 110, 116, 115>>
\* the user ids, with "user-42" and "user-7"
HashUserIds ==
    {None, U1, <<117, 115, 101, 114, 45, 52, 50>>, <<117, 115, 101, 114, 45, 55>>, Polygene}
\* the session ids, with "guest" and "anon-session-9", whose hashes are positive
HashSessionIds ==
    {None, S1, S2, <<103, 117, 101, 115, 116>>,
     <<97, 110, 111, 110, 45, 115, 101, 115, 115, 105, 111, 110, 45, 57>>, Polygene}

\* the variant lists of the walk, with one of three variants (20 / 30 / 50)
WalkLists ==
    {V6040, V4060, V6039, V6041, VTol,
     << Variant("A", "cfgA", Pct(20)), Variant("B", "cfgB", Pct(30)),
        Variant("C", "cfgC", Pct(50)) >>}

\* assignVariant is about to be called with some variants and identifiers
InitAssignVariant ==
    /\ InitData
    /\ \E variants \in {V6040, V4060}, userId \in HashUserIds, sessionId \in HashSessionIds :
          /\ pc = [p \in Procs |-> IF p = "analyzer" THEN "assignVariant" ELSE "idle"]
          /\ loc = [p \in Procs |->
                      IF p = "analyzer"
                      THEN [variants |-> variants, userId |-> userId, sessionId |-> sessionId]
                      ELSE NoLoc]

\* assignVariant(variants, userId, sessionId)
AssignVariantCall ==
    /\ pc["analyzer"] = "assignVariant"
    /\ LET input == loc["analyzer"]
           hashInput == HashInput(input.userId, input.sessionId)
       IN  resp' = Resp("analyzer", "assignVariant", 200,
                        << AssignVariant(input.variants, input.userId, input.sessionId).name >>,
                        [variants |-> input.variants, userId |-> input.userId,
                         sessionId |-> input.sessionId,
                         hash |-> Hash32(hashInput, 1, <<0, 0>>),
                         normalizedHash |-> NormalizedHash(hashInput)])
    /\ Return("analyzer")
    /\ UNCHANGED <<tests, nextId, cache, assignments, analytics, firstVariant, requests>>
    /\ UNCHANGED verification

SpecAssignVariant == InitAssignVariant /\ [][AssignVariantCall]_vars

\* the walk of assignVariant over the variants is about to start with some
\* normalizedHash
InitWalk ==
    /\ InitData
    /\ \E variants \in WalkLists, normalizedHash \in 0..99 :
          /\ pc = [p \in Procs |-> IF p = "analyzer" THEN "walk" ELSE "idle"]
          /\ loc = [p \in Procs |->
                      IF p = "analyzer"
                      THEN [variants |-> variants, normalizedHash |-> normalizedHash]
                      ELSE NoLoc]

\* assignVariant from `let cumulativePercentage = 0` on
AssignVariantWalk ==
    /\ pc["analyzer"] = "walk"
    /\ LET input == loc["analyzer"]
       IN  resp' = Resp("analyzer", "walk", 200,
                        << PickVariant(input.variants, 1, 0, input.normalizedHash).name >>,
                        input)
    /\ Return("analyzer")
    /\ UNCHANGED <<tests, nextId, cache, assignments, analytics, firstVariant, requests>>
    /\ UNCHANGED verification

SpecWalk == InitWalk /\ [][AssignVariantWalk]_vars

(***************************************************************************)
(* checkStatisticalSignificance, called directly                           *)
(***************************************************************************)
\* an entry of variantResults with a given interval, in units of 0.00001
WithInterval(variantName, sampleSize, conversions, lower, upper) ==
    [variant |-> variantName, sampleSize |-> sampleSize, conversions |-> conversions,
     confidence |-> << [rate |-> (conversions * 100000) \div sampleSize,
                        lower |-> lower, upper |-> upper] >>]

\* rate 0.30 in [0.28, 0.32], rate 0.20 in [0.18, 0.22], rate 0.29 in [0.27, 0.31]
R30 == WithInterval("A", 100, 30, 28000, 32000)
R20 == WithInterval("B", 100, 20, 18000, 22000)
R29 == WithInterval("C", 100, 29, 27000, 31000)

\* the lists of one to three entries out of six: the three above, rate 0.10 in
\* [0.08, 0.28] (its upper bound is the lower bound of the first), an empty sample
\* (calculateConfidence returns 0) and a small one
SignificanceInputs ==
    LET entries == {R30, R20, R29, WithInterval("D", 100, 10, 8000, 28000),
                    VariantResult("E", 0, 0), VariantResult("F", 5, 3)}
    IN  UNION {[1..n -> entries] : n \in 1..3}

\* checkStatisticalSignificance is about to be called with some variantResults
InitCheckSignificance ==
    /\ InitData
    /\ \E variantResults \in SignificanceInputs :
          /\ pc = [p \in Procs |-> IF p = "analyzer" THEN "checkSignificance" ELSE "idle"]
          /\ loc = [p \in Procs |->
                      IF p = "analyzer" THEN [variantResults |-> variantResults] ELSE NoLoc]

\* checkStatisticalSignificance(variantResults, confidenceLevel)
CheckSignificanceCall ==
    /\ pc["analyzer"] = "checkSignificance"
    /\ resp' = Resp("analyzer", "checkStatisticalSignificance", 200,
                    << CheckStatisticalSignificance(loc["analyzer"].variantResults) >>,
                    loc["analyzer"])
    /\ Return("analyzer")
    /\ UNCHANGED <<tests, nextId, cache, assignments, analytics, firstVariant, requests>>
    /\ UNCHANGED verification

SpecCheckSignificance == InitCheckSignificance /\ [][CheckSignificanceCall]_vars

(***************************************************************************)
(* PATCH /api/receipts/:id/confirm and /:id/decline                        *)
(***************************************************************************)
\* the status a route writes on the receipt and the paymentStatus it writes on the
\* order
Outcome(route) == IF route = "confirm" THEN "confirmed" ELSE "declined"
PaymentStatus(route) == IF route = "confirm" THEN "verified" ELSE "failed"

\* req.params.id: 0 is not a valid ObjectId, 1 is the uploaded receipt, 2 is the id
\* of no receipt
IsValidObjectId(receiptId) == receiptId # 0

\* a receipt has been uploaded for order 1: POST /api/receipts has stored it as
\* pending and set the order's paymentStatus to pending
InitReceipts ==
    /\ InitService
    /\ receipts = {[id |-> 1, orderId |-> 1, status |-> "pending"]}
    /\ orders = << "pending" >>
    /\ pc = [p \in Procs |-> "idle"]
    /\ loc = [p \in Procs |-> NoLoc]

VerifyResp(v, route, code, receiptId) ==
    Resp(v, route, code, <<>>, [receiptId |-> receiptId])

\* the route up to its first write: the ObjectId check, findById, 404 when there is
\* no receipt, 200 when the receipt already has the status asked for, 400 when it
\* has the opposite one
VerifyFind(v, route, receiptId, ok) ==
    /\ Begin
    /\ v \in Verifiers
    /\ pc[v] = "idle"
    \* the requests are interchangeable: the second one is used while the first is busy
    /\ v = "v2" => pc["v1"] # "idle"
    /\ LET found == {r \in receipts : r.id = receiptId}
       IN  IF ~IsValidObjectId(receiptId)
           THEN /\ resp' = VerifyResp(v, route, 400, receiptId)
                /\ UNCHANGED <<pc, loc>>
           ELSE IF ~ok
           THEN /\ resp' = VerifyResp(v, route, 500, receiptId)
                /\ UNCHANGED <<pc, loc>>
           ELSE IF found = {}
           THEN /\ resp' = VerifyResp(v, route, 404, receiptId)
                /\ UNCHANGED <<pc, loc>>
           ELSE LET receipt == CHOOSE r \in found : TRUE
                IN  IF receipt.status = Outcome(route)
                    THEN /\ resp' = VerifyResp(v, route, 200, receiptId)
                         /\ UNCHANGED <<pc, loc>>
                    ELSE IF receipt.status \in {"confirmed", "declined"}
                    THEN /\ resp' = VerifyResp(v, route, 400, receiptId)
                         /\ UNCHANGED <<pc, loc>>
                    ELSE /\ Goto(v, "update", [route |-> route, receipt |-> receipt])
                         /\ resp' = NoResp
    /\ UNCHANGED <<tests, nextId, cache, assignments, analytics, firstVariant, verification>>

\* findByIdAndUpdate(receiptId, { status, ... }, { new: true })
UpdateStatus(receiptId, status) ==
    {IF r.id = receiptId THEN [r EXCEPT !.status = status] ELSE r : r \in receipts}

\* await getReceipt().findByIdAndUpdate(...); an error is answered with 500
VerifyUpdate(v, ok) ==
    /\ UNCHANGED requests
    /\ v \in Verifiers
    /\ pc[v] = "update"
    /\ IF ok
       THEN /\ receipts' = UpdateStatus(loc[v].receipt.id, Outcome(loc[v].route))
            /\ Goto(v, "order", loc[v])
            /\ resp' = NoResp
       ELSE /\ resp' = VerifyResp(v, loc[v].route, 500, loc[v].receipt.id)
            /\ Return(v)
            /\ UNCHANGED receipts
    /\ UNCHANGED <<tests, nextId, cache, assignments, analytics, firstVariant, orders>>

\* await getOrder().findByIdAndUpdate(receipt.orderId, { paymentStatus }); an error
\* is logged and the route answers 200 all the same
VerifyOrder(v, ok) ==
    /\ UNCHANGED requests
    /\ v \in Verifiers
    /\ pc[v] = "order"
    /\ orders' = IF ok /\ loc[v].receipt.orderId \in DOMAIN orders
                 THEN [orders EXCEPT ![loc[v].receipt.orderId] = PaymentStatus(loc[v].route)]
                 ELSE orders
    /\ resp' = VerifyResp(v, loc[v].route, 200, loc[v].receipt.id)
    /\ Return(v)
    /\ UNCHANGED <<tests, nextId, cache, assignments, analytics, firstVariant, receipts>>

NextReceipts ==
    \/ \E v \in Verifiers, route \in {"confirm", "decline"}, receiptId \in 0..2,
          ok \in BOOLEAN :
          VerifyFind(v, route, receiptId, ok)
    \/ \E v \in Verifiers, ok \in BOOLEAN : VerifyUpdate(v, ok)
    \/ \E v \in Verifiers, ok \in BOOLEAN : VerifyOrder(v, ok)

SpecReceipts == InitReceipts /\ [][NextReceipts]_vars

(***************************************************************************)
(* Claims                                                                  *)
(***************************************************************************)
IsVariantReturn == resp.op = "getUserVariant" /\ resp.body # <<>>

\* every stored assignment carries a user id or a session id: no call was made
\* with neither
AllIdentified == \A a \in assignments : a.userId # None \/ a.sessionId # None

\* exactly one of the two ids is supplied
OneKey(userId, sessionId) == (userId = None) # (sessionId = None)

\* C1 (as claimed): stickiness.  Whenever a getUserVariant call that began after
\* its unit had been returned a variant returns a variant for an experiment that is
\* stored and active, it is the variant the first such return gave the same unit (the user id if present, else the session id) for that
\* experiment, whatever the targeting attributes of the call.  Only returns whose
\* lookup is unambiguous are judged: at most one stored assignment matches the ids
\* of the call.
C1_Sticky ==
    (/\ IsVariantReturn
     /\ resp.info.later
     /\ AllIdentified
     /\ Cardinality(MatchingAssignments(resp.info.testId, resp.info.userId,
                                        resp.info.sessionId)) <= 1
     /\ \E t \in tests : t.id = resp.info.testId /\ t.status = "active")
    => \A f \in firstVariant :
          (f.unit = UnitOf(resp.info.userId, resp.info.sessionId)
           /\ f.testId = resp.info.testId)
          => f.variant = resp.body[1].variant

\* the assignments stored for a unit: those under its user id if it has one, else
\* those under its session id
UnitAssignments(testId, userId, sessionId) ==
    {a \in assignments :
        /\ a.testId = testId
        /\ IF userId # None THEN a.userId = userId ELSE a.sessionId = sessionId}

\* C2 (as claimed): per experiment at most one assignment per user id and per
\* session id, and once a first-time call (one that found no assignment) has tried
\* to insert one, with success or with a duplicate-key error, exactly one
\* assignment is stored for its unit.  Only calls that supply exactly one of the
\* two ids are judged, in states where every stored assignment has exactly one.
C2_ExactlyOnce ==
    /\ \A a, b \in assignments :
          (a.testId = b.testId /\ a # b)
          => /\ (a.userId # None => a.userId # b.userId)
             /\ (a.sessionId # None => a.sessionId # b.sessionId)
    /\ (/\ resp.op = "getUserVariant"
        /\ resp.info.step \in {"saved", "duplicate"}
        /\ \A a \in assignments : OneKey(a.userId, a.sessionId)
        /\ OneKey(resp.info.userId, resp.info.sessionId))
       => Cardinality(UnitAssignments(resp.info.testId, resp.info.userId,
                                      resp.info.sessionId)) = 1

\* C3 (as claimed): a call whose insert fails on a unique index because an
\* assignment of the same unit has been stored meanwhile returns the variant of
\* that assignment, not "no assignment".
C3_LoserGetsWinner ==
    (/\ resp.op = "getUserVariant"
     /\ resp.info.step = "duplicate"
     /\ AllIdentified
     /\ (resp.info.userId # None \/ resp.info.sessionId # None)
     /\ UnitAssignments(resp.info.testId, resp.info.userId, resp.info.sessionId) # {})
    => /\ resp.body # <<>>
       /\ \E a \in UnitAssignments(resp.info.testId, resp.info.userId,
                                   resp.info.sessionId) :
             a.variant = resp.body[1].variant

\* the percentages are all given and their sum is off 100 by more than the tolerance
SumOff(variants) ==
    /\ \A i \in 1..Len(variants) : HasTraffic(variants[i])
    /\ \/ SumTraffic(variants, 1) > FullTraffic + Tolerance
       \/ SumTraffic(variants, 1) < FullTraffic - Tolerance

C5_UpdateKeepsSum ==
    (/\ resp.op = "update"
     /\ "variants" \in DOMAIN resp.info.updates
     /\ SumOff(resp.info.updates.variants))
    => resp.code # 200

\* C6 (as claimed): an experiment is completed exactly when a ResultSet is attached.
C6_CompletedIffResults ==
    \A t \in tests : (t.status = "completed") <=> (t.results # <<>>)

\* C7 (as claimed): completed is terminal; in particular startTest on a completed
\* experiment leaves it completed.
C7_CompletedIsTerminal ==
    [][\A t \in tests : \A u \in tests' :
          (t.status = "completed" /\ u.id = t.id) => u.status = "completed"]_vars

\* C8 (as claimed): the write of an update and the delete of a delete request are
\* never applied to an experiment that is active at the moment of the write.
C8_NoWriteWhileActive ==
    [][/\ (pc["update"] = "write" /\ pc'["update"] = "idle")
          => ~ \E t \in FindById(loc["update"].testId) : t.status = "active"
       /\ (pc["delete"] = "delete" /\ pc'["delete"] # "delete")
          => ~ \E t \in FindById(loc["delete"].testId) : t.status = "active"]_vars

\* C9 (as claimed): once a delete has completed no assignment references the
\* deleted experiment (ids are never reused, so an experiment that is not stored
\* and has had an id is a deleted one).  Assignments of calls that gave a user id
\* or a session id are judged.
C9_NoOrphanAssignments ==
    \A a \in assignments :
        (a.userId # None \/ a.sessionId # None)
        => \/ FindById(a.testId) # {}
           \/ pc["delete"] = "cascade" /\ loc["delete"].testId = a.testId

\* C10 (as claimed): an assignment (of a call that gave a user id or a session id)
\* is only ever created for an experiment that is stored and active at that moment.
C10_NewOnlyWhenActive ==
    [][\A a \in assignments' \ assignments :
          (a.userId # None \/ a.sessionId # None)
          => \E t \in tests : t.id = a.testId /\ t.status = "active"]_vars

\* the assignments of the unit a trackConversion call is for, in the experiments
\* of the name it gave
OwnAssignments(l) ==
    {a \in assignments :
        /\ a.testId \in l.ids
        /\ IF l.userId # None THEN a.userId = l.userId ELSE a.sessionId = l.sessionId}

\* trackConversion's lookup settles without an error
ConversionLooksUp ==
    /\ pc["convert"] = "find"
    /\ pc'["convert"] # "find"
    /\ resp'.info.step # "find failed"

\* C11 (as claimed): a trackConversion call for a unit without an assignment in the
\* named experiment emits no event, stores no assignment and raises no error; for
\* a unit with an assignment it emits exactly one addon_purchase event whose metadata
\* carries the experiment name and the variant assigned to the unit.  Only calls that
\* supply exactly one of the two ids are judged, and only when the lookup matches no
\* assignment of another unit.
C11_ConversionEvent ==
    [][(/\ ConversionLooksUp
        /\ OneKey(loc["convert"].userId, loc["convert"].sessionId)
        /\ ConversionMatches(loc["convert"].ids, loc["convert"].userId,
                             loc["convert"].sessionId) \subseteq OwnAssignments(loc["convert"]))
       => /\ assignments' = assignments
          /\ IF OwnAssignments(loc["convert"]) = {}
             THEN submitted' = submitted
             ELSE /\ Len(submitted') = Len(submitted) + 1
                  /\ LET e == submitted'[Len(submitted')]
                     IN  /\ e.eventType = "addon_purchase"
                         /\ e.metadata.abTestName = loc["convert"].testName
                         /\ \E a \in OwnAssignments(loc["convert"]) :
                               e.metadata.abTestVariant = a.variant]_vars

\* C12 (as claimed): shouldCompleteTest returns true exactly when the total sample
\* size is at least minSampleSize and the results are significant, or the end date
\* has passed (whatever the sample size).
C12_ShouldComplete ==
    resp.op = "shouldCompleteTest"
    => (resp.body[1] <=>
          \/ /\ TotalSamples(resp.info.variantResults, 1) >= resp.info.test.minSampleSize
             /\ CheckStatisticalSignificance(resp.info.variantResults)
          \/ /\ resp.info.test.endDate # <<>>
             /\ Now > resp.info.test.endDate[1])

\* where the n-th event trackEvent took is
InQueue(n) == \E i \in 1..Len(eventQueue) : eventQueue[i].seq = n
InFlight(n) == \E f \in flights : \E i \in 1..Len(f.events) : f.events[i].seq = n
Persisted(n) == \E i \in 1..Len(eventStore) : eventStore[i].seq = n

\* an insertMany has just been rejected
InsertRejected == resp.op = "insertMany" /\ resp.code = 500

\* C13: no event is lost on a flush failure.  Every event trackEvent has taken is in
\* the pending queue, in a batch whose insertMany is in flight, or stored; and when
\* an insertMany is rejected its whole batch is put back at the front of the queue in
\* its order, ahead of the events pushed while the insert was in flight.
C13_NoEventLost ==
    /\ [](\A n \in 1..Len(submitted) : InQueue(n) \/ InFlight(n) \/ Persisted(n))
    /\ [][(resp'.op = "insertMany" /\ resp'.code = 500)
          => eventQueue' = resp'.info.events \o eventQueue]_vars

\* an insertMany was rejected while another event was waiting in the queue
C13_Witness ==
    /\ InsertRejected
    /\ Len(eventQueue) > Len(resp.info.events)
    /\ SubSeq(eventQueue, 1, Len(resp.info.events)) = resp.info.events
    /\ \A i \in 1..Len(eventQueue) - 1 : eventQueue[i].seq < eventQueue[i + 1].seq

\* C14 (as claimed): at-least-once delivery.  While the flush timer keeps firing and
\* the storage does not fail for ever, every event trackEvent has taken is
\* eventually stored.
C14_AtLeastOnce ==
    \A n \in 1..MaxEvents : (Len(submitted) >= n) ~> Persisted(n)

\* how many copies of the n-th event the queue, the batches in flight and the
\* collection hold together
Occurrences(n) ==
    Cardinality({i \in 1..Len(eventQueue) : eventQueue[i].seq = n})
    + Cardinality({x \in flights \X (1..MaxEvents) :
                      x[2] <= Len(x[1].events) /\ x[1].events[x[2]].seq = n})
    + Cardinality({i \in 1..Len(eventStore) : eventStore[i].seq = n})

\* C15: as long as no insertMany has been rejected, under every interleaving of
\* concurrent trackEvent calls, timer flushes and threshold flushes each event
\* trackEvent took exists exactly once: pending, in one batch in flight, or stored
\* once.  So no event is dropped, none is in two batches, and once the queue and
\* the batches are empty every event is stored exactly once.
C15_ExactlyOnce ==
    ~failed => \A n \in 1..Len(submitted) : Occurrences(n) = 1

\* every event has been stored without a failure, by two flushes that overlapped:
\* the batch flushed second was stored first
C15_Witness ==
    /\ ~failed
    /\ Len(submitted) = MaxEvents
    /\ eventQueue = <<>>
    /\ flights = {}
    /\ \A n \in 1..MaxEvents : Persisted(n)
    /\ \E i \in 1..Len(eventStore) - 1 : eventStore[i].seq > eventStore[i + 1].seq

\* C16 (as claimed): an event whose kind is outside the enumeration, or that has no
\* kind (the schema's one required field), is rejected by trackEvent and is never
\* in the pending queue.
C16_RejectsMalformed ==
    /\ \A i \in 1..Len(eventQueue) : eventQueue[i].eventType \in EventTypes
    /\ (resp.op = "trackEvent" /\ resp.info.event.eventType \notin EventTypes)
       => resp.code # 200

\* the steps at which getUserVariant catches an error: the lookup of the
\* assignment, an experiment without variants, the save (a duplicate key included)
FailureSteps == {"find failed", "assign failed", "save failed", "duplicate"}

\* C17: assignment resolution never fails its caller.  getUserVariant always
\* returns, and returns null when one of its steps fails; getDisplayAddOnsConfig
\* always returns, either the variant of an assignment stored for the ids of the
\* call, with that variant's configuration, or else (in particular when a step
\* failed) the default configuration: hybrid, 4 add-ons, revenue priority and
\* related products on, variant control.
C17_NeverFails ==
    /\ resp.op = "getUserVariant"
       => /\ resp.code = 200
          /\ resp.info.step \in FailureSteps => resp.body = <<>>
    /\ resp.op = "getDisplayAddOnsConfig"
       => /\ resp.code = 200
          /\ IF resp.info.step \in {"existing", "saved"}
             THEN \E a \in MatchingAssignments(resp.info.testId, resp.info.userId,
                                               resp.info.sessionId) :
                     resp.body[1].variant = a.variant
             ELSE resp.body = << DefaultConfig >>

\* getDisplayAddOnsConfig has answered with the default configuration for an
\* experiment whose variant list is empty
C17_Witness ==
    /\ resp.op = "getDisplayAddOnsConfig"
    /\ resp.info.step = "assign failed"
    /\ resp.body = << DefaultConfig >>

C19_OneUnitKey ==
    \A a \in assignments :
        (a.userId # None \/ a.sessionId # None) => OneKey(a.userId, a.sessionId)

\* the stored conversion events of trackConversion whose metadata, as emitted,
\* names the experiment and the variant
StoredConversions(testName, variantName) ==
    {n \in 1..Len(submitted) :
        /\ submitted[n].eventType = "addon_purchase"
        /\ submitted[n].metadata.abTestName = testName
        /\ submitted[n].metadata.abTestVariant = variantName
        /\ Persisted(n)}

\* every assignment has exactly one id, and every event taken is the conversion of
\* a unit with one id that names the variant of that unit's own assignment
OwnConversionsOnly ==
    /\ \A a \in assignments : OneKey(a.userId, a.sessionId)
    /\ \A n \in 1..Len(submitted) :
          /\ OneKey(submitted[n].userId, submitted[n].sessionId)
          /\ \E a \in assignments :
                /\ IF submitted[n].userId # None
                   THEN a.userId = submitted[n].userId
                   ELSE a.sessionId = submitted[n].sessionId
                /\ a.variant = submitted[n].metadata.abTestVariant

\* C20 (as claimed): the results getTestResults computes give, for each variant, as
\* sample size the number of stored assignments to that variant and as conversions
\* the number of stored conversion events that trackConversion emitted for that
\* variant.  Judged when the conversion data is read while no insertMany has failed
\* (no event is stored twice), the assignments are as they were counted, and
\* every conversion is that of a unit's own assignment.
C20_ResultsCount ==
    [][(/\ pc["complete"] = "analytics"
        /\ pc'["complete"] = "write"
        /\ CompleteAnalytics(TRUE)
        /\ ~failed
        /\ OwnConversionsOnly
        /\ AggregateAssignments(loc["complete"].testId) = loc["complete"].groups)
       => LET results == loc'["complete"].results.variantResults
              test == loc["complete"].found
          IN  \A i \in 1..Len(results) :
                 /\ results[i].sampleSize =
                       Cardinality({a \in assignments :
                                       a.testId = test.id /\ a.variant = results[i].variant})
                 /\ results[i].conversions =
                       Cardinality(StoredConversions(test.name, results[i].variant))]_vars

\* C21: results computation propagates errors: when the event-store query for the
\* conversion data has failed, completeTest fails; it does not go on to store, on
\* the experiment, results computed from an empty conversion set.
C21_QueryFailurePropagates ==
    [][(pc["complete"] = "write" /\ loc["complete"].queryFailed) => tests' = tests]_vars

\* the first i shares of a variant list, added up
CumulativeShare(variants, i) == SumTraffic(SubSeq(variants, 1, i), 1)

\* the positions whose cumulative share is strictly greater than the bucket
Exceeding(variants, b) ==
    {i \in 1..Len(variants) : CumulativeShare(variants, i) > Pct(b)}

\* the shares are whole percentages and add up to 100
WholeShares(variants) ==
    /\ \A i \in 1..Len(variants) : variants[i].trafficPercentage % 1000 = 0
    /\ SumTraffic(variants, 1) = FullTraffic

\* C22: for a bucket b in 0..99 the walk selects the first variant whose cumulative
\* share is strictly greater than b, and the first variant if none is; with A 60 /
\* B 40 bucket 55 selects A and bucket 80 selects B; with whole shares adding up to
\* 100 the selected variant is selected for exactly its share of the 100 buckets.
C22_VariantSelection ==
    resp.op = "walk" =>
        LET variants == resp.info.variants
            b == resp.info.normalizedHash
            exceeding == Exceeding(variants, b)
            first == IF exceeding = {} THEN 1
                     ELSE CHOOSE i \in exceeding : \A j \in exceeding : i <= j
        IN  /\ resp.body = << variants[first].name >>
            /\ (variants = V6040 /\ b = 55 => resp.body = <<"A">>)
            /\ (variants = V6040 /\ b = 80 => resp.body = <<"B">>)
            /\ (WholeShares(variants) =>
                    Pct(Cardinality({c \in 0..99 :
                            PickVariant(variants, 1, 0, c).name = resp.body[1]}))
                        = variants[first].trafficPercentage)

\* the walk has passed A and selected B for bucket 80 of A 60 / B 40
C22_Witness ==
    /\ resp.op = "walk"
    /\ resp.info.variants = V6040
    /\ resp.info.normalizedHash = 80
    /\ resp.body = <<"B">>

\* no cumulative share exceeds the bucket and the first variant was returned
C22_Fallback ==
    /\ resp.op = "walk"
    /\ Exceeding(resp.info.variants, resp.info.normalizedHash) = {}
    /\ resp.body = <<"A">>

\* C24: the bucket of a unit is an integer in 0..99 and depends on the identifier
\* alone, the user id if there is one and else the session id, also when the
\* wrapped 32-bit hash is negative or -2^31.
C24_BucketInRange ==
    resp.op = "assignVariant" =>
        /\ resp.info.normalizedHash \in 0..99
        /\ LET identifier == IF resp.info.userId # None THEN resp.info.userId
                              ELSE resp.info.sessionId
           IN  \A userId \in HashUserIds, sessionId \in HashSessionIds :
                  (identifier # None /\ HashInput(userId, sessionId) = identifier)
                      => NormalizedHash(HashInput(userId, sessionId)) = resp.info.normalizedHash

\* the hash of the identifier came out as -2^31 and the bucket is 48
C24_Witness ==
    /\ resp.op = "assignVariant"
    /\ resp.info.hash = <<32768, 0>>
    /\ resp.info.normalizedHash = 48

\* the position of the entry with the highest conversion rate among the positions
\* in among, the earliest of them when several share it
BestOf(variantResults, among) ==
    CHOOSE i \in among :
        /\ \A k \in among : ~RateGreater(variantResults[k], variantResults[i])
        /\ \A k \in among : k < i => RateGreater(variantResults[i], variantResults[k])

\* C23: checkStatisticalSignificance returns true exactly when there are at least
\* two variants, the best and the second-best by conversion rate both have a
\* confidence interval and the lower bound of the best is strictly greater than the
\* upper bound of the second-best; [0.28,0.32] against [0.18,0.22] gives true,
\* overlapping intervals give false and an empty sample gives false.
C23_Significance ==
    resp.op = "checkStatisticalSignificance" =>
        LET variantResults == resp.info.variantResults
            all == 1..Len(variantResults)
        IN  IF Len(variantResults) < 2 THEN resp.body = <<FALSE>>
            ELSE LET best == BestOf(variantResults, all)
                     second == BestOf(variantResults, all \ {best})
                     expected ==
                        /\ variantResults[best].confidence # <<>>
                        /\ variantResults[second].confidence # <<>>
                        /\ variantResults[best].confidence[1].lower
                                > variantResults[second].confidence[1].upper
                 IN  /\ resp.body = << expected >>
                     /\ (variantResults \in {<<R30, R20>>, <<R20, R30>>}
                            => resp.body = <<TRUE>>)
                     /\ (variantResults \in {<<R30, R29>>, <<R29, R30>>}
                            => resp.body = <<FALSE>>)
                     /\ (\/ variantResults[best].sampleSize = 0
                         \/ variantResults[second].sampleSize = 0
                            => resp.body = <<FALSE>>)

\* the intervals [0.18,0.22] and [0.28,0.32], given in that order, were found to be
\* significantly different
C23_Witness ==
    /\ resp.op = "checkStatisticalSignificance"
    /\ resp.info.variantResults = <<R20, R30>>
    /\ resp.body = <<TRUE>>

\* C25: the snapshot of the active experiments is replaced in one step: whenever
\* the cache changes it becomes exactly what one refresh has read, a refresh whose
\* read fails leaves it as it was, and the experiment a getUserVariant call takes
\* from the cache is one of the snapshot in place at that moment.
C25_AtomicSwap ==
    [][/\ cache' # cache =>
            \E p \in Refreshers :
                pc[p] = "swap" /\ pc'[p] = "idle" /\ cache' = loc[p].activeTests
       /\ \A p \in Refreshers : (pc[p] = "refresh" /\ pc'[p] = "idle") => cache' = cache
       /\ \A c \in Callers : (pc[c] = "idle" /\ pc'[c] = "find") => loc'[c].test \in cache
      ]_vars

\* a getUserVariant call has taken its experiment from the cache while a refresh
\* that has read a different set of experiments has not yet replaced the cache
C25_Witness ==
    \E c \in Callers, p \in Refreshers :
        /\ pc[c] = "find"
        /\ pc[p] = "swap"
        /\ cache # {}
        /\ loc[p].activeTests # cache
        /\ loc[c].test \in cache

\* the assignments of an experiment that carry an identifier the call supplied
OwnRecords(testId, userId, sessionId) ==
    {a \in assignments :
        /\ a.testId = testId
        /\ \/ userId # None /\ a.userId = userId
           \/ sessionId # None /\ a.sessionId = sessionId}

\* C26: assignments are not shared between units: when getUserVariant, called with
\* exactly one of the two identifiers, returns the variant of an assignment it
\* found, an assignment of that experiment with that variant carries the
\* identifier the call supplied.  Only states where every stored assignment
\* carries an identifier are judged.
C26_NotShared ==
    (/\ IsVariantReturn
     /\ resp.info.step = "existing"
     /\ AllIdentified
     /\ OneKey(resp.info.userId, resp.info.sessionId))
    => \E a \in OwnRecords(resp.info.testId, resp.info.userId, resp.info.sessionId) :
          a.variant = resp.body[1].variant

\* C27: any number of distinct units can be assigned in one experiment: the insert
\* of a call that supplies exactly one identifier is rejected by a unique index
\* only when an assignment carrying that identifier is already stored for the
\* experiment, never because of the key the call does not supply.  Only states
\* where every stored assignment carries an identifier are judged.
C27_NoBlockOnAbsentKey ==
    (/\ resp.op = "getUserVariant"
     /\ resp.info.step = "duplicate"
     /\ AllIdentified
     /\ OneKey(resp.info.userId, resp.info.sessionId))
    => OwnRecords(resp.info.testId, resp.info.userId, resp.info.sessionId) # {}

\* the experiments whose stored status is active
StoredActive == {t \in tests : t.status = "active"}

\* C28: refreshes of the snapshot do not go backwards: a refresh never replaces a
\* cache that agrees with the stored experiments by what it read at an earlier
\* moment and no longer agrees with them; so the cache that startTest or
\* completeTest has written is not undone by a timer refresh still in flight.
C28_NoStaleOverwrite ==
    [][\A p \in Refreshers :
          (pc[p] = "swap" /\ pc'[p] = "idle" /\ cache = StoredActive)
          => cache' = StoredActive]_vars

\* every event trackEvent has taken is of a kind the schema enumerates
KnownKinds == \A i \in 1..Len(submitted) : submitted[i].eventType \in EventTypes

\* C29: no head-of-line blocking in the event queue.  While the flush timer keeps
\* firing and the storage does not fail for ever, every event that passes the
\* schema validation is eventually stored, whatever events rejected by the
\* validation (such as the displayaddons_shown event with displayType 'ab_test')
\* are in its batch or ahead of it in the queue.  Behaviours in which trackEvent is
\* given an event of a kind outside the enumeration are not judged.
C29_ValidEventsStored ==
    \A n \in 1..MaxEvents :
        (Len(submitted) >= n /\ Valid(submitted[n])) ~> (Persisted(n) \/ ~KnownKinds)

\* C30: the outcome of a receipt verification is terminal: under any interleaving
\* of confirm and decline requests on a receipt, a receipt whose status is confirmed
\* is never written as declined, and a declined one is never written as confirmed.
C30_OutcomeIsTerminal ==
    [][\A r \in receipts : \A w \in receipts' :
          w.id = r.id =>
            /\ (r.status = "confirmed" => w.status # "declined")
            /\ (r.status = "declined" => w.status # "confirmed")]_vars

====
